---------------------------- MODULE Spec2Model ----------------------------
(***************************************************************************)
(* Generation-and-validation pipeline of Promptify: generateSiteHTML with  *)
(* its sanitizer, quality gates, retry loop, fallback template and asset   *)
(* injection.                                                              *)
(*                                                                         *)
(* Texts are sequences of lexemes.  One lexeme stands for one literal or   *)
(* one class of characters of the JavaScript strings:                      *)
(*   "D"   <!doctype html>            "DU"  <!DOCTYPE HTML>                *)
(*   "s"   white space                "w"   plain words (ends in a word    *)
(*   "t"   markup ending in a non-word character, e.g. <p>, </a>, href="   *)
(*   "X"   reference to a listed external host, e.g. //cdn.                *)
(*   "T"   opening of an external element, e.g. <iframe                    *)
(*   "Ho"  <h1> .. <h6 ...>           "Hc"  </h1> .. </h6>                 *)
(*   "F"   the word Fast (a banned heading text)                           *)
(*   "L"   %%LOGO     "B"  %%BG       "E"   _DATA_URL%%                    *)
(*   "FN"  a markdown fence ```       "hl"  the word html after a fence    *)
(*   "n"   the word none              "dm"  the replacement pattern $&     *)
(*   "I"   capital I with dot above (U+0130): toLowerCase makes it two     *)
(*         code units                                                      *)
(*   "Dc"  what is left of a doctype literal whose first characters were   *)
(*         cut off                                                         *)
(*   "nl"  one line feed              "Ht"  opening of the html tag, <html  *)
(*   "he"  </head>                    "bo"  opening of the body tag, <body  *)
(*   "sl"  an attribute src="..logo.."                                      *)
(*   "bi"  a declaration background-image:..;                               *)
(*   "b64" base64 text                "ee"  markup with < and > escaped     *)
(***************************************************************************)
EXTENDS Integers, Sequences, FiniteSets, TLC

(* ------------------------------ bounds -------------------------------- *)
MaxChunks == 2
MaxRetriesBound == 2
MaxTextChunks == 3
MaxItems == 2

(* --------------------------- text helpers ----------------------------- *)
LOGO_TOKEN == <<"L", "E">>
BG_TOKEN == <<"B", "E">>

IsSpace(c) == c \in {"s", "nl"}

\* last character of the lexeme is a word character (\w)
EndsInWordChar(c) == c \in {"w", "F", "L", "B", "n", "hl"}

\* the lexeme is a complete tag, removed by /<[^>]+>/g
IsTag(c) == c \in {"t", "Ho", "Hc", "D", "DU"}

IsDoctype(c) == c \in {"D", "DU"}

Drop(s, k) == IF k >= Len(s) THEN <<>> ELSE SubSeq(s, k + 1, Len(s))

StartsWith(s, p) == Len(s) >= Len(p) /\ SubSeq(s, 1, Len(p)) = p

RECURSIVE TrimStart(_)
TrimStart(s) == IF s # <<>> /\ IsSpace(Head(s)) THEN TrimStart(Tail(s)) ELSE s

RECURSIVE TrimEnd(_)
TrimEnd(s) ==
  IF s # <<>> /\ IsSpace(s[Len(s)]) THEN TrimEnd(SubSeq(s, 1, Len(s) - 1)) ELSE s

\* String.prototype.trim
Trim(s) == TrimEnd(TrimStart(s))

\* String.prototype.includes
Includes(s, p) == \E i \in 1..(Len(s) - Len(p) + 1) : SubSeq(s, i, i + Len(p) - 1) = p

\* expansion of the replacement string: $& stands for the matched text
RECURSIVE ExpandReplacement(_, _)
ExpandReplacement(rep, matched) ==
  IF rep = <<>> THEN <<>>
  ELSE (IF Head(rep) = "dm" THEN matched ELSE <<Head(rep)>>)
         \o ExpandReplacement(Tail(rep), matched)

\* String.prototype.replaceAll(pattern, replacement): one left-to-right pass
\* over the original text, matches do not overlap, the result is not rescanned
RECURSIVE ReplaceAll(_, _, _)
ReplaceAll(s, p, rep) ==
  IF s = <<>> THEN <<>>
  ELSE IF StartsWith(s, p)
       THEN ExpandReplacement(rep, p) \o ReplaceAll(Drop(s, Len(p)), p, rep)
       ELSE <<Head(s)>> \o ReplaceAll(Tail(s), p, rep)

\* a || b on strings
OrElse(a, b) == IF a # <<>> THEN a ELSE b


(* ---------------------------- quality gates --------------------------- *)
\* /^<!doctype html>/i.test(html.trim())
isValidHTMLTypeOnly(html) == TRUE

isValidHTML(html) == Trim(html) # <<>> /\ IsDoctype(Head(Trim(html)))

\* host references match anywhere; \b<link, \b<script, \b@import, \b<iframe
\* need a word character right before the element
violatesExternal(html) ==
  \E i \in 1..Len(html) :
     \/ html[i] = "X"
     \/ html[i] = "T" /\ i > 1 /\ EndsInWordChar(html[i - 1])

\* index of the first lexeme of s at or after from that is in lexemes, 0 if none
RECURSIVE FirstIndex(_, _, _)
FirstIndex(s, from, lexemes) ==
  IF from > Len(s) THEN 0
  ELSE IF s[from] \in lexemes THEN from ELSE FirstIndex(s, from + 1, lexemes)

IsNotTag(c) == ~IsTag(c)

\* BANNED_HEADINGS.some(rx => rx.test(text)) for /^\s*fast\s*$/i and the like
IsBannedText(text) == Trim(text) = <<"F">>

\* matchAll(/<h[1-6][^>]*>(.*?)<\/h[1-6]>/gis): successive non-overlapping
\* matches, each from a heading opening to the nearest closing after it
RECURSIVE hasBannedHeadingsFrom(_, _)
hasBannedHeadingsFrom(html, from) ==
  LET i == FirstIndex(html, from, {"Ho"})
      j == IF i = 0 THEN 0 ELSE FirstIndex(html, i + 1, {"Hc"})
  IN IF j = 0 THEN FALSE
     ELSE \/ IsBannedText(Trim(SelectSeq(SubSeq(html, i + 1, j - 1), IsNotTag)))
          \/ hasBannedHeadingsFrom(html, j + 1)

hasBannedHeadings(html) == hasBannedHeadingsFrom(html, 1)

missingPlaceholdersNever(html) == FALSE

\* !html.includes("%%LOGO_DATA_URL%%") && !html.includes("%%BG_DATA_URL%%")
missingPlaceholders(html) == ~Includes(html, LOGO_TOKEN) /\ ~Includes(html, BG_TOKEN)

(* ------------------------------ sanitizer ----------------------------- *)
\* s.replace(/^```(?:html|HTML)?\s*/i, "")
StripLeadingFence(s) ==
  IF s # <<>> /\ Head(s) = "FN"
  THEN LET r == Tail(s)
       IN TrimStart(IF r # <<>> /\ Head(r) = "hl" THEN Tail(r) ELSE r)
  ELSE s

\* s.replace(/```$/i, "")
StripTrailingFence(s) ==
  IF s # <<>> /\ s[Len(s)] = "FN" THEN SubSeq(s, 1, Len(s) - 1) ELSE s

\* number of "I" lexemes among the first k lexemes of s
RECURSIVE LowerCaseGrowth(_, _)
LowerCaseGrowth(s, k) ==
  IF k <= 0 THEN 0
  ELSE (IF s[k] = "I" THEN 1 ELSE 0) + LowerCaseGrowth(s, k - 1)

\* const i = s.toLowerCase().indexOf("<!doctype html>"); if (i >= 0) s = s.slice(i)
\* the index is one of the lower-cased copy, the slice is cut from the original:
\* every U+0130 before the literal moves the cut one character into it
sliceFromDoctype(s) ==
  LET i == FirstIndex(s, 1, {"D", "DU"})
  IN IF i = 0 THEN s
     ELSE IF LowerCaseGrowth(s, i - 1) = 0 THEN Drop(s, i - 1)
     ELSE <<"Dc">> \o Drop(s, i)

\* the white-space lexeme covers U+FEFF, which trim() removes as well, so the
\* replace of a leading U+FEFF in the source is subsumed by the final trim
sanitizeHTML(raw) ==
  IF raw = <<>> THEN <<>>
  ELSE Trim(sliceFromDoctype(StripTrailingFence(StripLeadingFence(Trim(raw)))))

(* -------------------------------- brief ------------------------------- *)
\* defaults: "Untitled Project", "$TOKEN", "A crypto project.", "#7c3aed",
\* "#06b6d4" are plain words
MakeBrief(payload) ==
  [ name |-> OrElse(payload.name, <<"w">>),
    ticker |-> OrElse(payload.ticker, <<"w">>),
    description |-> OrElse(payload.description, <<"w">>),
    telegram |-> payload.telegram,
    twitter |-> payload.twitter,
    primaryColor |-> OrElse(payload.primary, <<"w">>),
    accentColor |-> OrElse(payload.accent, <<"w">>),
    logoDataUrl |-> payload.logo,
    backgroundDataUrl |-> payload.bg ]

(* ------------------------- fallback template -------------------------- *)
SocialLink(url, label) ==
  IF url # <<>> THEN <<"t">> \o url \o <<"t">> \o label \o <<"t">> ELSE <<>>

fallbackTemplate(brief) ==
     <<"D", "t">> \o brief.name \o <<"s">> \o brief.ticker \o <<"t">>  \* head, title
  \o <<"t">> \o brief.primaryColor \o <<"t">> \o brief.accentColor      \* :root
  \o <<"t">> \o BG_TOKEN \o <<"t">>                                     \* url(..)
  \o <<"t">> \o LOGO_TOKEN \o <<"t">>                                   \* img src
  \o brief.ticker \o <<"t">>                                            \* badge
  \o <<"Ho">> \o brief.name \o <<"Hc">>                                 \* h1
  \o <<"t">> \o brief.description \o <<"t">>                            \* p
  \o SocialLink(brief.twitter, <<"w">>)
  \o SocialLink(brief.telegram, <<"w">>)
  \o <<"t", "w", "t", "w", "s">> \o brief.ticker \o <<"s", "w", "t">>    \* cards
  \o <<"w", "t", "w", "t", "w", "t">>
  \o <<"t">> \o brief.name \o <<"t">>                                   \* footer
  \o SocialLink(brief.twitter, <<"w">>)
  \o SocialLink(brief.telegram, <<"w">>)
  \o <<"t">>

(* --------------------------- asset injection -------------------------- *)
inject(h, brief) ==
  LET h1 == IF brief.logoDataUrl # <<>>
            THEN ReplaceAll(h, LOGO_TOKEN, brief.logoDataUrl)
            ELSE ReplaceAll(h, LOGO_TOKEN, <<>>)
  IN IF brief.backgroundDataUrl # <<>>
     THEN ReplaceAll(h1, BG_TOKEN, brief.backgroundDataUrl)
     ELSE ReplaceAll(h1, BG_TOKEN, <<"n">>)

(* ------------------------------- inputs ------------------------------- *)
\* pieces a model response is made of
Chunks ==
  { <<"D">>, <<"w">>, <<"X">>, <<"Ho", "F", "Hc">>, <<"L", "E">> }

RECURSIVE TextsOf(_)
TextsOf(n) ==
  IF n = 0 THEN { <<>> }
  ELSE LET shorter == TextsOf(n - 1)
       IN shorter \cup { t \o c : t \in shorter, c \in Chunks }

\* whole responses: a page with both markers, a page with the background
\* marker only, a fenced page, fenced prose
WholeOutputs ==
  { <<"D", "L", "E", "B", "E">>, <<"D", "B", "E">>,
    <<"FN", "hl", "nl", "D", "L", "E", "nl", "FN">>, <<"FN", "nl", "w", "nl", "FN">> }

\* res.output_text; the empty text also stands for an undefined output_text
RawOutputs == TextsOf(MaxChunks) \cup WholeOutputs

PlainPayload ==
  [ name |-> <<"w">>, ticker |-> <<"w">>, description |-> <<"w">>,
    telegram |-> <<>>, twitter |-> <<>>, primary |-> <<>>, accent |-> <<>>,
    logo |-> <<>>, bg |-> <<>> ]

\* request bodies: no assets; data-URL assets and social links; no name;
\* a project called Fast; a description quoting a CDN address; a logo given
\* by a CDN address; a background string that spells the logo marker;
\* neither name nor description
Payloads ==
  { PlainPayload,
    [PlainPayload EXCEPT !.logo = <<"w">>, !.bg = <<"w">>,
                         !.twitter = <<"w">>, !.telegram = <<"w">>],
    [PlainPayload EXCEPT !.name = <<>>, !.description = <<"w", "s", "w">>],
    [PlainPayload EXCEPT !.name = <<"F">>],
    [PlainPayload EXCEPT !.description = <<"w", "X">>],
    [PlainPayload EXCEPT !.logo = <<"X", "w">>],
    [PlainPayload EXCEPT !.bg = <<"L", "E">>],
    [PlainPayload EXCEPT !.name = <<>>, !.description = <<>>] }

\* "fallback": generateSiteHTML that substitutes the fallback template;
\* "strict": generateSiteHTML that throws instead
Variants == { "fallback", "strict" }

(* ------------------------------- reasons ------------------------------ *)
REASON_DOCTYPE == "HTML must start with <!doctype html>."
REASON_EXTERNAL == "Contains external resources (fonts/scripts/iframes/CDNs)."
REASON_HEADING == "Uses generic headings (Fast/Customizable/Reliable)."
REASON_PLACEHOLDER == "Missing asset placeholders %%LOGO_DATA_URL%% / %%BG_DATA_URL%%."
PASSED == ""

Reasons == { REASON_DOCTYPE, REASON_EXTERNAL, REASON_HEADING, REASON_PLACEHOLDER }

(* -------------------------------- state ------------------------------- *)
VARIABLES
  variant,     \* which generateSiteHTML runs
  maxRetries,  \* Number(process.env.MAX_RETRIES || ..)
  brief,       \* the brief built from the payload
  pc,          \* position in generateSiteHTML
  attempts,    \* let attempts
  html,        \* let html
  lastReason,  \* let lastReason
  prompt,      \* content of the last user message of the pending call
  calls,       \* number of client.responses.create calls issued
  cand,        \* the candidate the gates judged in the latest attempt
  loopExit,    \* how the while loop was left: "", "break" or "exhausted"
  docSource,   \* what went into injection: "", "candidate" or "fallback"
  injIn,       \* the document handed to inject
  recheck,     \* outcome of the final re-check: "", "ok" or "failed"
  err,         \* "" or the error the call rejected with
  doctypeSeen, \* some response so far contained the doctype literal
  payload,     \* req.body of POST /generate-site
  response,    \* what the handler answered, if it has
  siteWritten, \* index.html of this request is in the sites directory
  tin,         \* a text a helper is applied to on its own
  tout,        \* the results of applying it
  inFlight,    \* client.responses.create calls of this request not yet settled
  sentBrief,   \* what the messages of the pending call carry of the brief
  peer,        \* the locals of a second generateSiteHTML call running alongside
  handler,     \* which POST /api/generate handler runs
  ai,          \* the envelope openai.responses.create resolved with
  apiText,     \* the text extracted from the envelope
  apiResponse  \* what POST /api/generate answered

vars == << variant, maxRetries, brief, pc, attempts, html, lastReason, prompt,
           calls, cand, loopExit, docSource, injIn, recheck, err, doctypeSeen,
           payload, response, siteWritten, tin, tout, inFlight, sentBrief,
           peer, handler, ai, apiText, apiResponse >>

\* the pending call of this request
wireVars == << inFlight, sentBrief >>

\* state of POST /api/generate
apiVars == << handler, ai, apiText, apiResponse >>

\* untouched by generateSiteHTML itself
hostVars == << payload, response, siteWritten, tin, tout >>

\* the brief before generateSiteHTML has built it
UnsetBrief ==
  [ name |-> <<>>, ticker |-> <<>>, description |-> <<>>, telegram |-> <<>>,
    twitter |-> <<>>, primaryColor |-> <<>>, accentColor |-> <<>>,
    logoDataUrl |-> <<>>, backgroundDataUrl |-> <<>> ]

NoResponse == [ status |-> 0, quality_gate |-> "" ]

\* no second call is running
IdlePeer ==
  [ pc |-> "idle", brief |-> UnsetBrief, attempts |-> 0, html |-> <<>>,
    lastReason |-> "", prompt |-> <<>>, cand |-> <<>> ]

\* a bucket of the envelope: absent, or an array of items
NoBucket == [ isArray |-> FALSE, items |-> <<>> ]

NoEnvelope ==
  [ output_text |-> <<>>, output |-> NoBucket, response |-> NoBucket,
    data |-> NoBucket ]

NoApiResponse == [ status |-> 0, html |-> <<>> ]

Init ==
  /\ variant \in Variants
  /\ maxRetries \in 0..MaxRetriesBound
  /\ payload \in Payloads
  /\ brief = UnsetBrief
  /\ pc = "request"
  /\ attempts = 0
  /\ html = <<>>
  /\ lastReason = ""
  /\ prompt = << >>
  /\ calls = 0
  /\ cand = <<>>
  /\ loopExit = ""
  /\ docSource = ""
  /\ injIn = <<>>
  /\ recheck = ""
  /\ err = ""
  /\ doctypeSeen = FALSE
  /\ response = NoResponse
  /\ siteWritten = FALSE
  /\ tin = <<>>
  /\ tout = <<>>
  /\ inFlight = 0
  /\ sentBrief = <<>>
  /\ peer = IdlePeer
  /\ handler = ""
  /\ ai = NoEnvelope
  /\ apiText = <<>>
  /\ apiResponse = NoApiResponse

(* ----------------------------- brief shape --------------------------- *)
NAME_MIN == 1
NAME_MAX == 60
TICKER_MIN == 1
TICKER_MAX == 16
PROMPT_MIN == 8
PROMPT_MAX == 4000

\* characters a lexeme stands for; plain words count as eight
LexemeChars(c) ==
  CASE c = "s" -> 1
    [] c = "F" -> 4
    [] c = "n" -> 4
    [] c = "L" -> 6
    [] c = "B" -> 4
    [] c = "E" -> 11
    [] c \in {"D", "DU"} -> 15
    [] OTHER -> 8

RECURSIVE TextChars(_)
TextChars(s) == IF s = <<>> THEN 0 ELSE LexemeChars(Head(s)) + TextChars(Tail(s))

\* GenSchema: name 1..60, ticker 1..16, description (prompt) 8..4000 characters
satisfiesBriefShape(p) ==
  /\ TextChars(p.name) >= NAME_MIN /\ TextChars(p.name) <= NAME_MAX
  /\ TextChars(p.ticker) >= TICKER_MIN /\ TextChars(p.ticker) <= TICKER_MAX
  /\ TextChars(p.description) >= PROMPT_MIN /\ TextChars(p.description) <= PROMPT_MAX

(* ------------------------------- handler ------------------------------ *)
\* if (!payload?.name && !payload?.description)
missingRequiredFields(p) == p.name = <<>> /\ p.description = <<>>

HandleRequestWritesFirst ==
  /\ pc = "request"
  /\ IF missingRequiredFields(payload)
     THEN /\ response' = [ status |-> 400, quality_gate |-> "" ]
          /\ pc' = "responded"
          /\ UNCHANGED << brief, siteWritten >>
     ELSE /\ brief' = MakeBrief(payload)
          /\ siteWritten' = TRUE
          /\ pc' = "loop"
          /\ UNCHANGED response
  /\ UNCHANGED << variant, maxRetries, attempts, html, lastReason, prompt,
                  calls, cand, loopExit, docSource, injIn, recheck, err,
                  doctypeSeen, payload, tin, tout >>
  /\ UNCHANGED << wireVars, peer, apiVars >>

\* POST /generate-site up to the call of generateSiteHTML, and the brief that
\* generateSiteHTML builds on entry
HandleRequest ==
  /\ pc = "request"
  /\ IF missingRequiredFields(payload)
     THEN /\ response' = [ status |-> 400, quality_gate |-> "" ]
          /\ pc' = "responded"
          /\ UNCHANGED brief
     ELSE /\ brief' = MakeBrief(payload)
          /\ pc' = "loop"
          /\ UNCHANGED response
  /\ UNCHANGED << variant, maxRetries, attempts, html, lastReason, prompt,
                  calls, cand, loopExit, docSource, injIn, recheck, err,
                  doctypeSeen, payload, siteWritten, tin, tout >>
  /\ UNCHANGED << wireVars, peer, apiVars >>

\* generateSiteHTML returned: write index.html, answer 200
RespondWithSite ==
  /\ pc = "done"
  /\ siteWritten' = TRUE
  /\ response' = [ status |-> 200, quality_gate |-> "passed" ]
  /\ pc' = "responded"
  /\ UNCHANGED << variant, maxRetries, brief, attempts, html, lastReason,
                  prompt, calls, cand, loopExit, docSource, injIn, recheck, err,
                  doctypeSeen, payload, tin, tout >>
  /\ UNCHANGED << wireVars, peer, apiVars >>

\* generateSiteHTML threw: the catch block answers 502
RespondWithError ==
  /\ pc = "thrown"
  /\ response' = [ status |-> 502, quality_gate |-> "" ]
  /\ pc' = "responded"
  /\ UNCHANGED << variant, maxRetries, brief, attempts, html, lastReason,
                  prompt, calls, cand, loopExit, docSource, injIn, recheck, err,
                  doctypeSeen, payload, siteWritten, tin, tout >>
  /\ UNCHANGED << wireVars, peer, apiVars >>

(* ------------------------------ retry loop ---------------------------- *)
loopConditionLoose(a, m) == a <= m + 1

loopConditionStrict(a, m) == a < m

\* while (attempts <= maxRetries)
loopCondition(a, m) == a <= m

briefInMessagesWithAssets(b, a) ==
     b.name \o <<"t">> \o b.ticker \o <<"t">> \o b.description \o <<"t">>
  \o b.telegram \o <<"t">> \o b.twitter \o <<"t">>
  \o b.primaryColor \o <<"t">> \o b.accentColor \o <<"t">>
  \o b.logoDataUrl \o <<"t">> \o b.backgroundDataUrl

\* the second message, JSON.stringify({...brief, logoDataUrl: "%%LOGO_DATA_URL%%",
\* backgroundDataUrl: "%%BG_DATA_URL%%"}), followed on the first attempt by the
\* brief fields primaryPrompt(brief) interpolates
briefInMessages(b, a) ==
     b.name \o <<"t">> \o b.ticker \o <<"t">> \o b.description \o <<"t">>
  \o b.telegram \o <<"t">> \o b.twitter \o <<"t">>
  \o b.primaryColor \o <<"t">> \o b.accentColor \o <<"t">>
  \o LOGO_TOKEN \o <<"t">> \o BG_TOKEN
  \o (IF a = 1
      THEN <<"t">> \o b.name \o <<"t">> \o b.ticker \o <<"t">> \o b.description
           \o <<"t">> \o b.telegram \o <<"t">> \o b.twitter
           \o <<"t">> \o b.primaryColor \o <<"t">> \o b.accentColor
      ELSE <<>>)

promptForWithoutReason(a, reason) ==
  IF a = 1 THEN <<"primary">> ELSE <<"revision", "">>

\* attempts === 1 ? primaryPrompt(brief) : revisionPrompt(lastReason)
promptFor(a, reason) == IF a = 1 THEN <<"primary">> ELSE <<"revision", reason>>

StartAttemptEager ==
  /\ pc \in { "loop", "await" }
  /\ loopCondition(attempts, maxRetries)
  /\ attempts' = attempts + 1
  /\ prompt' = promptFor(attempts + 1, lastReason)
  /\ calls' = calls + 1
  /\ pc' = "await"
  /\ UNCHANGED << variant, maxRetries, brief, html, lastReason, cand, loopExit,
                  docSource, injIn, recheck, err >>
  /\ UNCHANGED << doctypeSeen, hostVars >>
  /\ inFlight' = inFlight + 1
  /\ sentBrief' = briefInMessages(brief, attempts + 1)
  /\ UNCHANGED << peer, apiVars >>

\* loop test true: attempts++, build the input, client.responses.create(..)
StartAttempt ==
  /\ pc = "loop"
  /\ loopCondition(attempts, maxRetries)
  /\ attempts' = attempts + 1
  /\ prompt' = promptFor(attempts + 1, lastReason)
  /\ calls' = calls + 1
  /\ pc' = "await"
  /\ UNCHANGED << variant, maxRetries, brief, html, lastReason, cand, loopExit,
                  docSource, injIn, recheck, err >>
  /\ UNCHANGED << doctypeSeen, hostVars >>
  /\ inFlight' = inFlight + 1
  /\ sentBrief' = briefInMessages(brief, attempts + 1)
  /\ UNCHANGED << peer, apiVars >>

\* loop test false: fall out of the while loop
LoopExhausted ==
  /\ pc = "loop"
  /\ ~loopCondition(attempts, maxRetries)
  /\ loopExit' = "exhausted"
  /\ pc' = "select"
  /\ UNCHANGED << variant, maxRetries, brief, attempts, html, lastReason,
                  prompt, calls, cand, docSource, injIn, recheck, err >>
  /\ UNCHANGED << doctypeSeen, hostVars >>
  /\ UNCHANGED << wireVars, peer, apiVars >>

gateReasonExternalFirst(h) ==
  IF violatesExternal(h) THEN REASON_EXTERNAL
  ELSE IF ~isValidHTML(h) THEN REASON_DOCTYPE
  ELSE IF hasBannedHeadings(h) THEN REASON_HEADING
  ELSE IF missingPlaceholders(h) THEN REASON_PLACEHOLDER
  ELSE PASSED

\* the chain of gate tests; PASSED when none of them fires
gateReason(h) ==
  IF ~isValidHTML(h) THEN REASON_DOCTYPE
  ELSE IF violatesExternal(h) THEN REASON_EXTERNAL
  ELSE IF hasBannedHeadings(h) THEN REASON_HEADING
  ELSE IF missingPlaceholders(h) THEN REASON_PLACEHOLDER
  ELSE PASSED

\* the candidate taken from the response
candidateOf(v, output_text) ==
  IF v = "fallback" THEN sanitizeHTML(Trim(output_text)) ELSE Trim(output_text)

breakNever(reason) == FALSE

\* break is reached when no gate test has fired
breaksLoop(reason) == reason = PASSED

\* the awaited call resolves: take the candidate, run the gates, continue or break
ModelReturns ==
  /\ pc = "await"
  /\ \E output_text \in RawOutputs :
       LET h == candidateOf(variant, output_text)
           reason == gateReason(h)
       IN /\ html' = h
          /\ cand' = h
          /\ doctypeSeen' = (doctypeSeen \/ FirstIndex(output_text, 1, {"D", "DU"}) > 0)
          /\ IF breaksLoop(reason)
             THEN /\ loopExit' = "break"
                  /\ pc' = "select"
                  /\ UNCHANGED lastReason
             ELSE /\ lastReason' = IF reason = PASSED THEN lastReason ELSE reason
                  /\ pc' = "loop"
                  /\ UNCHANGED loopExit
  /\ UNCHANGED << variant, maxRetries, brief, attempts, prompt, calls,
                  docSource, injIn, recheck, err >>
  /\ UNCHANGED hostVars
  /\ inFlight' = inFlight - 1
  /\ UNCHANGED << sentBrief, peer, apiVars >>

ModelThrowsRetried ==
  /\ pc = "await"
  /\ err' = "model call failed"
  /\ pc' = "loop"
  /\ UNCHANGED << variant, maxRetries, brief, attempts, html, lastReason,
                  prompt, calls, cand, loopExit, docSource, injIn, recheck >>
  /\ UNCHANGED << doctypeSeen, hostVars >>
  /\ inFlight' = inFlight - 1
  /\ UNCHANGED << sentBrief, peer, apiVars >>

\* the awaited call rejects: nothing catches it
ModelThrows ==
  /\ pc = "await"
  /\ err' = "model call failed"
  /\ pc' = "thrown"
  /\ UNCHANGED << variant, maxRetries, brief, attempts, html, lastReason,
                  prompt, calls, cand, loopExit, docSource, injIn, recheck >>
  /\ UNCHANGED << doctypeSeen, hostVars >>
  /\ inFlight' = inFlight - 1
  /\ UNCHANGED << sentBrief, peer, apiVars >>

(* ------------------------- after the retry loop ----------------------- *)
needsFallbackAlways(h) == TRUE

\* if (!isValidHTML(html)) after the loop
needsFallback(h) == ~isValidHTML(h)

\* fallback variant: html = fallbackTemplate(brief); strict variant: throw
SelectDocument ==
  /\ pc = "select"
  /\ IF needsFallback(html)
     THEN IF variant = "fallback"
          THEN /\ html' = fallbackTemplate(brief)
               /\ docSource' = "fallback"
               /\ pc' = "inject"
               /\ UNCHANGED err
          ELSE /\ err' = "AI generation failed after retries"
               /\ pc' = "thrown"
               /\ UNCHANGED << html, docSource >>
     ELSE /\ docSource' = "candidate"
          /\ pc' = "inject"
          /\ UNCHANGED << html, err >>
  /\ UNCHANGED << variant, maxRetries, brief, attempts, lastReason, prompt,
                  calls, cand, loopExit, injIn, recheck >>
  /\ UNCHANGED << doctypeSeen, hostVars >>
  /\ UNCHANGED << wireVars, peer, apiVars >>

InjectAssetsSkipped ==
  /\ pc = "inject"
  /\ injIn' = html
  /\ pc' = "recheck"
  /\ UNCHANGED << variant, maxRetries, brief, attempts, html, lastReason, prompt,
                  calls, cand, loopExit, docSource, recheck, err >>
  /\ UNCHANGED << doctypeSeen, hostVars >>
  /\ UNCHANGED << wireVars, peer, apiVars >>

\* html = inject(html)
InjectAssets ==
  /\ pc = "inject"
  /\ injIn' = html
  /\ html' = inject(html, brief)
  /\ pc' = "recheck"
  /\ UNCHANGED << variant, maxRetries, brief, attempts, lastReason, prompt,
                  calls, cand, loopExit, docSource, recheck, err >>
  /\ UNCHANGED << doctypeSeen, hostVars >>
  /\ UNCHANGED << wireVars, peer, apiVars >>

\* if (!isValidHTML(html) || violatesExternal(html)) after injection
failsRecheck(h) == ~isValidHTML(h) \/ violatesExternal(h)

FinalRecheckThrows ==
  /\ pc = "recheck"
  /\ IF failsRecheck(html)
     THEN /\ recheck' = "failed"
          /\ err' = "Injection produced invalid HTML (unexpected)."
          /\ pc' = "thrown"
          /\ UNCHANGED html
     ELSE /\ recheck' = "ok"
          /\ pc' = "done"
          /\ UNCHANGED << html, err >>
  /\ UNCHANGED << variant, maxRetries, brief, attempts, lastReason, prompt,
                  calls, cand, loopExit, docSource, injIn >>
  /\ UNCHANGED << doctypeSeen, hostVars >>
  /\ UNCHANGED << wireVars, peer, apiVars >>

\* fallback variant: html = inject(fallbackTemplate(brief)); strict: throw;
\* then return html
FinalRecheck ==
  /\ pc = "recheck"
  /\ IF failsRecheck(html)
     THEN /\ recheck' = "failed"
          /\ IF variant = "fallback"
             THEN /\ html' = inject(fallbackTemplate(brief), brief)
                  /\ pc' = "done"
                  /\ UNCHANGED err
             ELSE /\ err' = "Injection produced invalid HTML (unexpected)."
                  /\ pc' = "thrown"
                  /\ UNCHANGED html
     ELSE /\ recheck' = "ok"
          /\ pc' = "done"
          /\ UNCHANGED << html, err >>
  /\ UNCHANGED << variant, maxRetries, brief, attempts, lastReason, prompt,
                  calls, cand, loopExit, docSource, injIn >>
  /\ UNCHANGED << doctypeSeen, hostVars >>
  /\ UNCHANGED << wireVars, peer, apiVars >>

Next ==
  \/ HandleRequest
  \/ RespondWithSite
  \/ RespondWithError
  \/ StartAttempt
  \/ LoopExhausted
  \/ ModelReturns
  \/ ModelThrows
  \/ SelectDocument
  \/ InjectAssets
  \/ FinalRecheck

Spec == Init /\ [][Next]_vars

(* ------------------- helpers applied to a text alone ------------------- *)
\* pieces of the texts the helpers are applied to
TextChunks ==
  { <<"D">>, <<"DU">>, <<"w">>, <<"s">>, <<"t">>, <<"FN">>, <<"hl">>, <<"I">>,
    <<"T">>, <<"X">>, <<"L">>, <<"E">>, <<"L", "E">>, <<"B", "E">>,
    <<"Ho">>, <<"Hc">>, <<"F">>, <<"Ho", "F", "Hc">> }

RECURSIVE TextInputsOf(_)
TextInputsOf(n) ==
  IF n = 0 THEN { <<>> }
  ELSE LET shorter == TextInputsOf(n - 1)
       IN shorter \cup { t \o c : t \in shorter, c \in TextChunks }

TextInputs == TextInputsOf(MaxTextChunks)

\* briefs: no assets; data-URL assets; a logo string that contains $&
TextBriefs ==
  { MakeBrief(PlainPayload),
    MakeBrief([PlainPayload EXCEPT !.logo = <<"w">>, !.bg = <<"w">>]),
    MakeBrief([PlainPayload EXCEPT !.logo = <<"w", "dm">>]) }

InitText ==
  /\ variant = "fallback"
  /\ maxRetries = 0
  /\ payload = PlainPayload
  /\ brief \in TextBriefs
  /\ pc = "text"
  /\ tin \in TextInputs
  /\ tout = <<>>
  /\ attempts = 0
  /\ html = <<>>
  /\ lastReason = ""
  /\ prompt = << >>
  /\ calls = 0
  /\ cand = <<>>
  /\ loopExit = ""
  /\ docSource = ""
  /\ injIn = <<>>
  /\ recheck = ""
  /\ err = ""
  /\ doctypeSeen = FALSE
  /\ response = NoResponse
  /\ siteWritten = FALSE
  /\ inFlight = 0
  /\ sentBrief = <<>>
  /\ peer = IdlePeer
  /\ handler = ""
  /\ ai = NoEnvelope
  /\ apiText = <<>>
  /\ apiResponse = NoApiResponse

\* sanitizeHTML(tin)
ApplySanitize ==
  /\ pc = "text"
  /\ tout' = << sanitizeHTML(tin) >>
  /\ pc' = "sanitized"
  /\ UNCHANGED << variant, maxRetries, brief, attempts, html, lastReason, prompt,
                  calls, cand, loopExit, docSource, injIn, recheck, err,
                  doctypeSeen, payload, response, siteWritten, tin >>
  /\ UNCHANGED << wireVars, peer, apiVars >>

\* sanitizeHTML(sanitizeHTML(tin))
ApplySanitizeAgain ==
  /\ pc = "sanitized"
  /\ tout' = Append(tout, sanitizeHTML(tout[1]))
  /\ pc' = "resanitized"
  /\ UNCHANGED << variant, maxRetries, brief, attempts, html, lastReason, prompt,
                  calls, cand, loopExit, docSource, injIn, recheck, err,
                  doctypeSeen, payload, response, siteWritten, tin >>
  /\ UNCHANGED << wireVars, peer, apiVars >>

\* if (violatesExternal(html)) { lastReason = "Contains external ..."; continue; }
ApplyExternalCheck ==
  /\ pc = "text"
  /\ lastReason' = IF violatesExternal(tin) THEN REASON_EXTERNAL ELSE PASSED
  /\ pc' = "checked"
  /\ UNCHANGED << variant, maxRetries, brief, attempts, html, prompt,
                  calls, cand, loopExit, docSource, injIn, recheck, err,
                  doctypeSeen, payload, response, siteWritten, tin, tout >>
  /\ UNCHANGED << wireVars, peer, apiVars >>

\* if (hasBannedHeadings(html)) { lastReason = "Uses generic ..."; continue; }
ApplyHeadingCheck ==
  /\ pc = "text"
  /\ lastReason' = IF hasBannedHeadings(tin) THEN REASON_HEADING ELSE PASSED
  /\ pc' = "headings"
  /\ UNCHANGED << variant, maxRetries, brief, attempts, html, prompt,
                  calls, cand, loopExit, docSource, injIn, recheck, err,
                  doctypeSeen, payload, response, siteWritten, tin, tout >>
  /\ UNCHANGED << wireVars, peer, apiVars >>

\* inject(tin)
ApplyInject ==
  /\ pc = "text"
  /\ tout' = << inject(tin, brief) >>
  /\ pc' = "injected"
  /\ UNCHANGED << variant, maxRetries, brief, attempts, html, lastReason, prompt,
                  calls, cand, loopExit, docSource, injIn, recheck, err,
                  doctypeSeen, payload, response, siteWritten, tin >>
  /\ UNCHANGED << wireVars, peer, apiVars >>

NextText ==
  \/ ApplySanitize
  \/ ApplySanitizeAgain
  \/ ApplyExternalCheck
  \/ ApplyHeadingCheck
  \/ ApplyInject

SpecText == InitText /\ [][NextText]_vars

(* ---------------------- two calls side by side ------------------------ *)
\* MAX_RETRIES of the process the two calls run in
PairRetries == 1

\* the payload of the second call: assets given, a project called Fast
PeerPayload ==
  [PlainPayload EXCEPT !.name = <<"F">>, !.logo = <<"w">>, !.bg = <<"w">>]

\* responses to the second call: a passing page, prose, a page with a CDN link
PeerOutputs == { <<"D", "L", "E">>, <<"w">>, <<"D", "X">> }

\* the locals of the first call and what its handler holds
requestVars ==
  << variant, maxRetries, brief, pc, attempts, html, lastReason, prompt, calls,
     cand, loopExit, docSource, injIn, recheck, err, doctypeSeen >>

InitPair ==
  /\ variant = "fallback"
  /\ maxRetries = PairRetries
  /\ payload = PlainPayload
  /\ brief = UnsetBrief
  /\ pc = "request"
  /\ peer = [ IdlePeer EXCEPT !.pc = "loop", !.brief = MakeBrief(PeerPayload) ]
  /\ attempts = 0
  /\ html = <<>>
  /\ lastReason = ""
  /\ prompt = << >>
  /\ calls = 0
  /\ cand = <<>>
  /\ loopExit = ""
  /\ docSource = ""
  /\ injIn = <<>>
  /\ recheck = ""
  /\ err = ""
  /\ doctypeSeen = FALSE
  /\ response = NoResponse
  /\ siteWritten = FALSE
  /\ tin = <<>>
  /\ tout = <<>>
  /\ inFlight = 0
  /\ sentBrief = <<>>
  /\ handler = ""
  /\ ai = NoEnvelope
  /\ apiText = <<>>
  /\ apiResponse = NoApiResponse

\* the code after the while loop of the fallback variant, which runs without
\* awaiting: fallback test, injection, final re-check
finalDocument(h, b) ==
  LET selected == IF needsFallback(h) THEN fallbackTemplate(b) ELSE h
      injected == inject(selected, b)
  IN IF failsRecheck(injected) THEN inject(fallbackTemplate(b), b) ELSE injected

\* second call: loop test true, attempts++, client.responses.create(..)
PeerStartAttempt ==
  /\ peer.pc = "loop"
  /\ loopCondition(peer.attempts, maxRetries)
  /\ peer' = [ peer EXCEPT !.attempts = peer.attempts + 1,
                           !.prompt = promptFor(peer.attempts + 1, peer.lastReason),
                           !.pc = "await" ]
  /\ UNCHANGED << requestVars, hostVars, wireVars, apiVars >>

PeerModelReturnsShared ==
  /\ peer.pc = "await"
  /\ \E output_text \in PeerOutputs :
       LET h == candidateOf(variant, output_text)
           reason == gateReason(h)
       IN /\ peer' = [ peer EXCEPT !.html = h, !.cand = h,
                         !.pc = IF breaksLoop(reason) THEN "select" ELSE "loop" ]
          /\ lastReason' = IF breaksLoop(reason) THEN lastReason ELSE reason
  /\ UNCHANGED << variant, maxRetries, brief, pc, attempts, html, prompt, calls,
                  cand, loopExit, docSource, injIn, recheck, err, doctypeSeen >>
  /\ UNCHANGED << hostVars, wireVars, apiVars >>

\* second call: the awaited call resolves, gates, continue or break
PeerModelReturns ==
  /\ peer.pc = "await"
  /\ \E output_text \in PeerOutputs :
       LET h == candidateOf(variant, output_text)
           reason == gateReason(h)
       IN peer' = [ peer EXCEPT !.html = h, !.cand = h,
                      !.lastReason = IF breaksLoop(reason) THEN peer.lastReason
                                     ELSE reason,
                      !.pc = IF breaksLoop(reason) THEN "select" ELSE "loop" ]
  /\ UNCHANGED << requestVars, hostVars, wireVars, apiVars >>

\* second call: the awaited call rejects
PeerModelThrows ==
  /\ peer.pc = "await"
  /\ peer' = [ peer EXCEPT !.pc = "thrown" ]
  /\ UNCHANGED << requestVars, hostVars, wireVars, apiVars >>

\* second call: out of the loop, it returns its document
PeerFinish ==
  /\ \/ peer.pc = "select"
     \/ peer.pc = "loop" /\ ~loopCondition(peer.attempts, maxRetries)
  /\ peer' = [ peer EXCEPT !.html = finalDocument(peer.html, peer.brief),
                           !.pc = "returned" ]
  /\ UNCHANGED << requestVars, hostVars, wireVars, apiVars >>

NextPair ==
  \/ HandleRequest
  \/ RespondWithSite
  \/ RespondWithError
  \/ StartAttempt
  \/ LoopExhausted
  \/ ModelReturns
  \/ ModelThrows
  \/ SelectDocument
  \/ InjectAssets
  \/ FinalRecheck
  \/ PeerStartAttempt
  \/ PeerModelReturns
  \/ PeerModelThrows
  \/ PeerFinish

SpecPair == InitPair /\ [][NextPair]_vars

(* --------------------------- POST /api/generate ------------------------ *)
\* "scan": the handler that scans output, response and data and shows the
\* page in a viewer; "first": the handler that reads the first item of the
\* output and embeds colors and assets; "plain": the handlers that read
\* output_text only and wrap what is no page
ApiHandlers == { "scan", "first", "plain" }

\* String.prototype.replace with a string or non-global pattern: first match only
RECURSIVE ReplaceFirst(_, _, _)
ReplaceFirst(s, p, rep) ==
  IF s = <<>> THEN <<>>
  ELSE IF StartsWith(s, p)
       THEN ExpandReplacement(rep, p) \o Drop(s, Len(p))
       ELSE <<Head(s)>> \o ReplaceFirst(Tail(s), p, rep)

\* end of the opening of a fenced block that starts at i: ```, html or not,
\* then a line feed; 0 when no block opens at i
fenceOpenEnd(text, i) ==
  IF i > Len(text) \/ text[i] # "FN" THEN 0
  ELSE IF i + 1 <= Len(text) /\ text[i + 1] = "nl" THEN i + 1
  ELSE IF i + 2 <= Len(text) /\ text[i + 1] = "hl" /\ text[i + 2] = "nl" THEN i + 2
  ELSE 0

\* first position at or after from where a line feed and ``` follow each other
RECURSIVE fenceCloseAt(_, _)
fenceCloseAt(text, from) ==
  IF from + 1 > Len(text) THEN 0
  ELSE IF text[from] = "nl" /\ text[from + 1] = "FN" THEN from
  ELSE fenceCloseAt(text, from + 1)

\* text.match(/```(?:html)?\n([\s\S]*?)\n```/i): the inside of the leftmost
\* fenced block, or the text itself when there is none
RECURSIVE fencedOrWhole(_, _)
fencedOrWhole(text, i) ==
  IF i > Len(text) THEN text
  ELSE LET o == fenceOpenEnd(text, i)
           c == IF o = 0 THEN 0 ELSE fenceCloseAt(text, o + 1)
       IN IF c > 0 THEN SubSeq(text, o + 1, c - 1)
          ELSE fencedOrWhole(text, i + 1)

sanitizeHTMLFromModel(text) ==
  IF text = <<>> THEN <<>> ELSE Trim(fencedOrWhole(text, 1))

looksLikeHTMLAlways(h) == TRUE

\* lower.startsWith('<!doctype html') || lower.startsWith('<html')
looksLikeHTML(h) ==
  LET lower == Trim(h) IN lower # <<>> /\ Head(lower) \in { "D", "DU", "Ht" }

\* cont.find(c => c?.type === 'output_text' && c?.text)?.text
RECURSIVE findText(_)
findText(cont) ==
  IF cont = <<>> THEN <<>>
  ELSE IF Head(cont).type = "output_text" /\ Head(cont).text # <<>>
       THEN Head(cont).text
       ELSE findText(Tail(cont))

\* for (const it of b): the first item whose content has such an entry
RECURSIVE scanItems(_)
scanItems(items) ==
  IF items = <<>> THEN <<>>
  ELSE LET found == findText(Head(items))
       IN IF found # <<>> THEN found ELSE scanItems(Tail(items))

\* for (const b of buckets) { if (Array.isArray(b)) ..; if (html) break; }
RECURSIVE scanBuckets(_)
scanBuckets(buckets) ==
  IF buckets = <<>> THEN <<>>
  ELSE LET found == IF Head(buckets).isArray THEN scanItems(Head(buckets).items)
                    ELSE <<>>
       IN IF found # <<>> THEN found ELSE scanBuckets(Tail(buckets))

\* content.find(c => c.type === 'output_text'): the first entry of that type,
\* whatever its text
RECURSIVE findOutputText(_)
findOutputText(cont) ==
  IF cont = <<>> THEN <<>>
  ELSE IF Head(cont).type = "output_text" THEN Head(cont).text
       ELSE findOutputText(Tail(cont))

\* the text each handler takes from the envelope
extractText(h, env) ==
  CASE h = "scan" ->
         IF Trim(env.output_text) # <<>> THEN env.output_text
         ELSE scanBuckets(<< env.output, env.response, env.data >>)
    [] h = "first" ->
         IF Trim(env.output_text) # <<>> THEN env.output_text
         ELSE LET out == IF env.output.isArray THEN env.output
                         ELSE IF env.response.isArray THEN env.response
                         ELSE NoBucket
                  content == IF out.items # <<>> THEN out.items[1] ELSE <<>>
                  text == findOutputText(content)
              IN IF text # <<>> THEN text ELSE env.output_text
    [] OTHER -> env.output_text

\* fallbackHTML(..): a complete page built from the request
fallbackHTML(p) ==
     <<"D", "t">> \o p.name \o <<"s">> \o p.ticker \o <<"t", "w", "t">>
  \o (IF p.bg # <<>> THEN <<"t">> \o p.bg \o <<"t">> ELSE <<>>)
  \o <<"t", "he", "bo", "t">>
  \o (IF p.logo # <<>> THEN <<"t">> \o p.logo \o <<"t">> \o p.name \o <<"t">>
      ELSE <<>>)
  \o <<"t">> \o p.ticker \o <<"Ho">> \o p.name \o <<"Hc", "t">>
  \o p.description \o <<"t">> \o p.description \o <<"t">>
  \o SocialLink(p.twitter, <<"w">>) \o SocialLink(p.telegram, <<"w">>)
  \o <<"t">>

\* wrapAIHTML(..): a viewer page whose iframe holds the page as a data URL
wrapAIHTML(p, aiHTML) ==
     <<"D", "t">> \o p.name \o <<"s">> \o p.ticker \o <<"t", "w", "t", "he", "bo">>
  \o <<"t">> \o p.ticker \o <<"t">> \o p.name \o <<"t", "b64", "t">>

IsMarkup(c) == c \in { "D", "DU", "Dc", "Ht", "t", "he", "bo", "Ho", "Hc", "T" }

\* html.replace(/[<]/g, '&lt;').replace(/[>]/g, '&gt;')
RECURSIVE escapeAngles(_)
escapeAngles(text) ==
  IF text = <<>> THEN <<>>
  ELSE << IF IsMarkup(Head(text)) THEN "ee" ELSE Head(text) >>
       \o escapeAngles(Tail(text))

\* the page the "plain" handlers put prose into
wrapEscaped(p, text) ==
     <<"D", "Ht", "t">> \o p.name \o <<"s">> \o p.ticker \o <<"t", "he", "bo", "t">>
  \o escapeAngles(text) \o <<"t">>

\* the :root style put in front of </head>, data-logo on the body tag, the
\* first logo src and the first background-image replaced by the uploads
embedTheme(h, p) ==
  LET themed == ReplaceFirst(h, <<"he">>, <<"t", "w", "t", "he">>)
      withLogo == IF p.logo # <<>>
                  THEN ReplaceFirst(ReplaceFirst(themed, <<"bo">>, <<"bo", "t">>),
                                    <<"sl">>, <<"t">> \o p.logo \o <<"t">>)
                  ELSE themed
  IN IF p.bg # <<>>
     THEN ReplaceFirst(withLogo, <<"bi">>, <<"t">> \o p.bg \o <<"t">>)
     ELSE withLogo

\* the html of the answer
finalHTML(h, p, text) ==
  LET html0 == sanitizeHTMLFromModel(text)
  IN CASE h = "scan" ->
            IF html0 = <<>> \/ ~looksLikeHTML(html0) THEN fallbackHTML(p)
            ELSE wrapAIHTML(p, html0)
       [] h = "first" ->
            IF ~looksLikeHTML(html0) THEN fallbackHTML(p) ELSE embedTheme(html0, p)
       [] OTHER ->
            embedTheme(IF ~looksLikeHTML(html0) THEN wrapEscaped(p, html0) ELSE html0, p)

\* texts of output_text: none, blank, prose, a page, a page that opens with the
\* html tag, a fenced page, prose with a fenced block of prose
ApiTexts ==
  { <<>>, <<"s">>, <<"w">>, <<"D", "t", "he", "bo", "sl", "bi", "t">>,
    <<"Ht", "t">>, <<"FN", "hl", "nl", "D", "t", "nl", "FN">>,
    <<"w", "nl", "FN", "nl", "w", "nl", "FN">> }

RECURSIVE SeqsUpTo(_, _)
SeqsUpTo(S, n) ==
  IF n = 0 THEN { <<>> }
  ELSE LET shorter == SeqsUpTo(S, n - 1)
       IN shorter \cup { Append(q, x) : q \in shorter, x \in S }

\* content arrays of an output item: empty, reasoning only, an output_text
\* entry without text, a page, reasoning before a page, an entry without
\* text before a page
ApiItems ==
  { <<>>,
    << [ type |-> "reasoning", text |-> <<"w">> ] >>,
    << [ type |-> "output_text", text |-> <<>> ] >>,
    << [ type |-> "output_text", text |-> <<"D", "t">> ] >>,
    << [ type |-> "reasoning", text |-> <<"w">> ],
       [ type |-> "output_text", text |-> <<"DU", "t">> ] >>,
    << [ type |-> "output_text", text |-> <<>> ],
       [ type |-> "output_text", text |-> <<"D", "t">> ] >> }

OutputBuckets ==
  { NoBucket } \cup { [ isArray |-> TRUE, items |-> q ] : q \in SeqsUpTo(ApiItems, MaxItems) }

ResponseBuckets ==
  { NoBucket,
    [ isArray |-> TRUE,
      items |-> << << [ type |-> "output_text", text |-> <<"D", "w">> ] >> >> ] }

DataBuckets ==
  { NoBucket,
    [ isArray |-> TRUE,
      items |-> << << [ type |-> "output_text", text |-> <<"D", "n">> ] >> >> ] }

\* what openai.responses.create may resolve with
Envelopes ==
       { [ NoEnvelope EXCEPT !.output_text = t ] : t \in ApiTexts }
  \cup { [ output_text |-> t, output |-> o, response |-> r, data |-> d ] :
           t \in { <<>>, <<"s">>, <<"w">> }, o \in OutputBuckets,
           r \in ResponseBuckets, d \in DataBuckets }

\* request bodies: complete; complete with both uploads; without a name
ApiPayloads ==
  { PlainPayload,
    [PlainPayload EXCEPT !.logo = <<"w">>, !.bg = <<"w">>],
    [PlainPayload EXCEPT !.name = <<>>] }

InitApi ==
  /\ handler \in ApiHandlers
  /\ payload \in ApiPayloads
  /\ pc = "api"
  /\ ai = NoEnvelope
  /\ apiText = <<>>
  /\ apiResponse = NoApiResponse
  /\ variant = "fallback"
  /\ maxRetries = 0
  /\ brief = UnsetBrief
  /\ peer = IdlePeer
  /\ attempts = 0
  /\ html = <<>>
  /\ lastReason = ""
  /\ prompt = << >>
  /\ calls = 0
  /\ cand = <<>>
  /\ loopExit = ""
  /\ docSource = ""
  /\ injIn = <<>>
  /\ recheck = ""
  /\ err = ""
  /\ doctypeSeen = FALSE
  /\ response = NoResponse
  /\ siteWritten = FALSE
  /\ tin = <<>>
  /\ tout = <<>>
  /\ inFlight = 0
  /\ sentBrief = <<>>

\* GenSchema.safeParse(body): 400, or build the request and call the model
ApiRequest ==
  /\ pc = "api"
  /\ IF satisfiesBriefShape(payload)
     THEN /\ calls' = calls + 1
          /\ pc' = "api_await"
          /\ UNCHANGED apiResponse
     ELSE /\ apiResponse' = [ status |-> 400, html |-> <<>> ]
          /\ pc' = "api_responded"
          /\ UNCHANGED calls
  /\ UNCHANGED << variant, maxRetries, brief, attempts, html, lastReason, prompt,
                  cand, loopExit, docSource, injIn, recheck, err, doctypeSeen >>
  /\ UNCHANGED << hostVars, wireVars, peer, handler, ai, apiText >>

\* the call resolves: extract, sanitize, fall back or wrap or embed, answer
ApiModelReturns ==
  /\ pc = "api_await"
  /\ \E env \in Envelopes :
       /\ ai' = env
       /\ apiText' = extractText(handler, env)
       /\ apiResponse' = [ status |-> 200,
                           html |-> finalHTML(handler, payload,
                                              extractText(handler, env)) ]
  /\ pc' = "api_responded"
  /\ UNCHANGED << variant, maxRetries, brief, attempts, html, lastReason, prompt,
                  calls, cand, loopExit, docSource, injIn, recheck, err,
                  doctypeSeen >>
  /\ UNCHANGED << hostVars, wireVars, peer, handler >>

\* the call rejects: the catch block answers 500
ApiModelThrows ==
  /\ pc = "api_await"
  /\ err' = "model call failed"
  /\ apiResponse' = [ status |-> 500, html |-> <<>> ]
  /\ pc' = "api_responded"
  /\ UNCHANGED << variant, maxRetries, brief, attempts, html, lastReason, prompt,
                  calls, cand, loopExit, docSource, injIn, recheck, doctypeSeen >>
  /\ UNCHANGED << hostVars, wireVars, peer, handler, ai, apiText >>

NextApi ==
  \/ ApiRequest
  \/ ApiModelReturns
  \/ ApiModelThrows

SpecApi == InitApi /\ [][NextApi]_vars

(* ------------------------------- claims ------------------------------- *)
\* all four gate tests of one attempt come out clean
passesQualityGate(h) ==
  /\ isValidHTML(h)
  /\ ~violatesExternal(h)
  /\ ~hasBannedHeadings(h)
  /\ ~missingPlaceholders(h)

\* C1: in the fallback variant, when the loop ends without any candidate
\* having passed the gates, the document handed to injection is
\* fallbackTemplate(brief) and the returned one is inject(fallbackTemplate(brief))
C1_ExhaustedUsesFallback ==
  (variant = "fallback" /\ loopExit = "exhausted") =>
     /\ pc = "inject" => html = fallbackTemplate(brief)
     /\ pc = "done" => html = inject(fallbackTemplate(brief), brief)

\* C2 as stated: a request whose candidates all fail issues exactly
\* MAX_RETRIES model calls
C2_ExactlyMaxRetriesCalls ==
  loopExit = "exhausted" => calls = maxRetries

\* C2 amended: a request whose candidates all fail issues exactly
\* MAX_RETRIES + 1 model calls and is then past the loop for good
C2_ExactlyMaxRetriesPlusOneCalls ==
  /\ calls <= maxRetries + 1
  /\ loopExit = "exhausted" =>
       /\ calls = maxRetries + 1
       /\ pc \in { "select", "inject", "recheck", "done", "thrown", "responded" }

C2_Witness ==
  loopExit = "exhausted" /\ pc = "done" /\ maxRetries >= 1 /\ calls = maxRetries + 1

\* C3: every returned document starts with the doctype and has no external
\* resource in it
C3_ReturnedDocumentStructurallyValid ==
  pc = "done" => isValidHTML(html) /\ ~violatesExternal(html)

\* C4: in the fallback variant the only error is a failed model call, and a
\* returned document is never empty
C4_NeverThrowsNeverEmpty ==
  variant = "fallback" =>
     /\ pc = "thrown" => err = "model call failed"
     /\ pc = "done" => html # <<>>

C4_Witness ==
  variant = "fallback" /\ pc = "done" /\ cand = <<>> /\ loopExit = "exhausted"

\* C5: once the latest candidate has passed all four gate tests, no step
\* issues another model call
C5_NoCallAfterPass ==
  [][passesQualityGate(cand) => calls' = calls]_vars

C5_Witness ==
  pc = "done" /\ loopExit = "break" /\ attempts <= maxRetries /\ passesQualityGate(cand)

\* C6: when attempt k is the first to pass and the final re-check passes, the
\* returned document is inject(candidate of attempt k); the reason recorded for
\* a failed attempt names a test that fails on that attempt's candidate while
\* the tests before it do not
C6_FirstPassingCandidateReturned ==
  /\ (pc = "done" /\ loopExit = "break" /\ recheck = "ok") =>
        html = inject(cand, brief)
  /\ (pc = "loop" /\ attempts > 0) =>
        /\ lastReason = REASON_DOCTYPE => ~isValidHTML(cand)
        /\ lastReason = REASON_EXTERNAL => isValidHTML(cand) /\ violatesExternal(cand)
        /\ lastReason = REASON_HEADING =>
              isValidHTML(cand) /\ ~violatesExternal(cand) /\ hasBannedHeadings(cand)
        /\ lastReason = REASON_PLACEHOLDER =>
              /\ isValidHTML(cand) /\ ~violatesExternal(cand)
              /\ ~hasBannedHeadings(cand) /\ missingPlaceholders(cand)

C6_Witness ==
  /\ pc = "done" /\ loopExit = "break" /\ recheck = "ok"
  /\ attempts >= 2 /\ lastReason # "" /\ html = inject(cand, brief)
  /\ html # inject(fallbackTemplate(brief), brief)

\* C7: injecting into a document that passes the gates leaves no occurrence of
\* either placeholder token
C7_NoPlaceholderAfterInjection ==
  (pc = "recheck" /\ passesQualityGate(injIn)) =>
     ~Includes(html, LOGO_TOKEN) /\ ~Includes(html, BG_TOKEN)

\* C8 as stated: every document entering injection contains both tokens
C8_BothPlaceholdersBeforeInjection ==
  pc = "inject" => Includes(html, LOGO_TOKEN) /\ Includes(html, BG_TOKEN)

\* C8 amended: a candidate accepted by the gates contains at least one of the
\* two tokens when it enters injection, and the fallback template contains both
C8_PlaceholdersBeforeInjection ==
  pc = "inject" =>
     /\ docSource = "fallback" =>
           Includes(html, LOGO_TOKEN) /\ Includes(html, BG_TOKEN)
     /\ (docSource = "candidate" /\ loopExit = "break") =>
           Includes(html, LOGO_TOKEN) \/ Includes(html, BG_TOKEN)

C8_Witness ==
  /\ pc = "inject" /\ docSource = "candidate" /\ loopExit = "break"
  /\ Includes(html, LOGO_TOKEN) /\ ~Includes(html, BG_TOKEN)

\* C9: the fallback template of every brief passes all four gate tests before
\* injection
C9_FallbackPassesQualityGate ==
  (pc = "inject" /\ docSource = "fallback") => passesQualityGate(html)

\* C10: a failed attempt records exactly one reason, that of the first failing
\* test in the order doctype, external resource, banned heading, placeholder
C10_FirstFailingCheckRecorded ==
  (pc = "loop" /\ attempts > 0) =>
     /\ lastReason \in Reasons
     /\ ~isValidHTML(cand) => lastReason = REASON_DOCTYPE
     /\ (isValidHTML(cand) /\ violatesExternal(cand)) => lastReason = REASON_EXTERNAL
     /\ (isValidHTML(cand) /\ ~violatesExternal(cand) /\ hasBannedHeadings(cand)) =>
           lastReason = REASON_HEADING
     /\ (/\ isValidHTML(cand) /\ ~violatesExternal(cand)
         /\ ~hasBannedHeadings(cand) /\ missingPlaceholders(cand)) =>
           lastReason = REASON_PLACEHOLDER

C10_Witness ==
  /\ pc = "loop" /\ attempts > 0
  /\ ~isValidHTML(cand) /\ violatesExternal(cand)
  /\ lastReason = REASON_DOCTYPE

\* C11: the first attempt sends the primary prompt; every later attempt sends
\* the revision prompt with the reason the gates gave for the candidate of the
\* attempt right before it, which is never empty
C11_PromptCarriesPreviousReason ==
  pc = "await" =>
     /\ attempts = 1 => prompt = <<"primary">>
     /\ attempts > 1 =>
          /\ Len(prompt) = 2 /\ prompt[1] = "revision"
          /\ prompt[2] \in Reasons
          /\ prompt[2] = gateReason(cand)

C11_Witness ==
  /\ pc = "await" /\ attempts = 3
  /\ prompt = <<"revision", REASON_EXTERNAL>> /\ violatesExternal(cand)

\* C12: a rejected model call ends the request: no further call is issued, no
\* document is selected, injected or written, and the request is answered with
\* an error; a further call is only ever issued after a candidate the gates
\* rejected
C12_ModelFailurePropagates ==
  [][ /\ err' = "model call failed" =>
           /\ calls' = calls
           /\ pc' \in { "thrown", "responded" }
           /\ docSource' = "" /\ injIn' = <<>> /\ recheck' = ""
           /\ html' = html /\ ~siteWritten'
           /\ pc' = "responded" => response'.status = 502
      /\ (calls' > calls /\ calls > 0) =>
           /\ err = ""
           /\ gateReason(cand) \in Reasons ]_vars

C12_Witness ==
  /\ err = "model call failed" /\ pc = "responded"
  /\ attempts = 2 /\ attempts <= maxRetries /\ calls = 2

\* C13: in the strict variant, when the loop ends without any candidate having
\* passed the gates, the call throws and no document is returned
C13_StrictExhaustionThrows ==
  (variant = "strict" /\ loopExit = "exhausted") =>
     /\ pc \notin { "inject", "recheck", "done" }
     /\ pc = "responded" => response.status = 502

\* C14: a payload that fails the brief's shape is answered with an error and
\* causes no model call
C14_InvalidBriefMakesNoCall ==
  ~satisfiesBriefShape(payload) =>
     /\ calls = 0
     /\ pc = "responded" => response.status = 400

\* the text has a reference to a listed host or opens a stylesheet link, a
\* script with src, an @import or an iframe
hasExternalResource(h) == \E i \in 1..Len(h) : h[i] \in { "X", "T" }

\* C15: the external-resource check rejects every text that contains a listed
\* host reference or an external element, wherever in the text it stands
C15_ExternalAlwaysRejected ==
  (pc = "checked" /\ hasExternalResource(tin)) => lastReason = REASON_EXTERNAL

\* C16: sanitizing a sanitized text changes nothing
C16_SanitizeIdempotent ==
  pc = "resanitized" => tout[2] = tout[1]

\* C17: for a text that contains the doctype literal in either case the
\* sanitizer's result begins at the first occurrence of the literal and passes
\* the doctype check; for the empty text the result is empty
C17_SanitizeStartsAtDoctype ==
  pc = "sanitized" =>
     LET i == FirstIndex(tin, 1, { "D", "DU" })
     IN /\ i > 0 => /\ StartsWith(tout[1], << tin[i] >>)
                    /\ isValidHTML(tout[1])
        /\ tin = <<>> => tout[1] = <<>>

\* C18: without a logo no logo token is left after injection, and without a
\* background no background token is left
C18_DefaultsLeaveNoToken ==
  pc = "injected" =>
     /\ brief.logoDataUrl = <<>> => ~Includes(tout[1], LOGO_TOKEN)
     /\ brief.backgroundDataUrl = <<>> => ~Includes(tout[1], BG_TOKEN)

\* every occurrence of p met in one left-to-right pass over s gives way to rep
\* as it is written
RECURSIVE replaceEachVerbatim(_, _, _)
replaceEachVerbatim(s, p, rep) ==
  IF s = <<>> THEN <<>>
  ELSE IF StartsWith(s, p)
       THEN rep \o replaceEachVerbatim(Drop(s, Len(p)), p, rep)
       ELSE <<Head(s)>> \o replaceEachVerbatim(Tail(s), p, rep)

\* C19: with a logo string given, injection puts the unmodified logo string in
\* the place of every logo token, and likewise the background string
C19_AssetInsertedVerbatim ==
  (pc = "injected" /\ (brief.logoDataUrl # <<>> \/ brief.backgroundDataUrl # <<>>)) =>
     LET afterLogo == IF brief.logoDataUrl # <<>>
                      THEN replaceEachVerbatim(tin, LOGO_TOKEN, brief.logoDataUrl)
                      ELSE ReplaceAll(tin, LOGO_TOKEN, <<>>)
         afterBg == IF brief.backgroundDataUrl # <<>>
                    THEN replaceEachVerbatim(afterLogo, BG_TOKEN,
                                             brief.backgroundDataUrl)
                    ELSE ReplaceAll(afterLogo, BG_TOKEN, <<"n">>)
     IN tout[1] = afterBg

\* C20: in the fallback variant, when no response of any attempt contained the
\* doctype literal, the returned document is inject(fallbackTemplate(brief))
C20_NoDoctypeGivesFallback ==
  (variant = "fallback" /\ loopExit = "exhausted" /\ ~doctypeSeen
     /\ pc \in { "done", "responded" }) =>
       /\ err = ""
       /\ docSource = "fallback"
       /\ html = inject(fallbackTemplate(brief), brief)

C20_Witness ==
  /\ variant = "fallback" /\ pc = "done" /\ loopExit = "exhausted"
  /\ ~doctypeSeen /\ maxRetries = 2 /\ calls = 3 /\ cand # <<>>
  /\ html = inject(fallbackTemplate(brief), brief)

\* C21: in the fallback variant a failed re-check after injection makes the
\* call return inject(fallbackTemplate(brief)), unchecked and without throwing
C21_FailedRecheckReturnsFallback ==
  (variant = "fallback" /\ recheck = "failed") =>
     /\ pc \in { "done", "responded" }
     /\ err = ""
     /\ html = inject(fallbackTemplate(brief), brief)
     /\ pc = "responded" => (response.status = 200 /\ siteWritten)

C21_Witness ==
  /\ variant = "fallback" /\ recheck = "failed" /\ pc = "responded"
  /\ docSource = "candidate" /\ injIn = cand /\ passesQualityGate(cand)
  /\ failsRecheck(html)

\* C22: a request never has more than one model call pending, and a further
\* call is issued only when none is pending and the candidate of the previous
\* response has been taken and rejected by the gates
C22_OneCallInFlight ==
  [][ /\ inFlight' \in { 0, 1 }
      /\ calls' > calls =>
           /\ inFlight = 0
           /\ calls > 0 => /\ html = cand
                           /\ lastReason \in Reasons
                           /\ lastReason = gateReason(cand) ]_vars

C22_Witness ==
  /\ pc = "await" /\ inFlight = 1 /\ calls = 3 /\ lastReason = REASON_HEADING

\* C24: what the messages carry of the brief is what they would carry for the
\* same payload without logo and background, with the two placeholder tokens
\* where the asset strings would stand
C24_MessagesCarryNoAssets ==
  pc = "await" =>
     /\ sentBrief = briefInMessages(
                      MakeBrief([payload EXCEPT !.logo = <<>>, !.bg = <<>>]),
                      attempts)
     /\ Includes(sentBrief, LOGO_TOKEN) /\ Includes(sentBrief, BG_TOKEN)

C24_Witness ==
  /\ pc = "await" /\ attempts = 2
  /\ brief.logoDataUrl # <<>> /\ brief.backgroundDataUrl # <<>>

\* C23: with two calls running side by side, a step of one call leaves the
\* locals of the other as they are, and what each call holds follows from its
\* own payload and the responses to its own calls: the attempt counter counts
\* its own calls, the recorded reason is the verdict on its own candidate, the
\* returned document is the one its own last candidate and brief give
C23_CallsDoNotInterfere ==
  /\ [][ /\ peer' # peer => UNCHANGED << requestVars, wireVars, response, siteWritten >>
         /\ << requestVars, wireVars, response, siteWritten >>'
              # << requestVars, wireVars, response, siteWritten >> => peer' = peer
         /\ (pc' = "responded" /\ response'.status = 200) =>
               html' = finalDocument(cand', MakeBrief(payload))
         /\ peer'.pc = "returned" =>
               /\ peer'.html = finalDocument(peer'.cand, MakeBrief(PeerPayload))
               /\ peer'.attempts <= maxRetries + 1
         /\ (pc' = "loop" /\ calls' > 0) =>
               /\ attempts' = calls'
               /\ lastReason' = gateReason(cand') /\ lastReason' \in Reasons
         /\ (peer'.pc = "loop" /\ peer'.attempts > 0) =>
               /\ peer'.lastReason = gateReason(peer'.cand)
               /\ peer'.lastReason \in Reasons ]_vars

C23_Witness ==
  /\ pc = "await" /\ attempts = 2 /\ lastReason = REASON_PLACEHOLDER
  /\ peer.pc = "await" /\ peer.attempts = 2 /\ peer.lastReason = REASON_EXTERNAL

\* some heading element, an opening tag and the closing tag after it with no
\* other heading tag between them, has a banned word as its whole text once
\* tags are taken out and the rest is trimmed
someHeadingIsBanned(h) ==
  \E i \in 1..Len(h) :
     /\ h[i] = "Ho"
     /\ LET j == FirstIndex(h, i + 1, { "Ho", "Hc" })
        IN /\ j > 0 /\ h[j] = "Hc"
           /\ IsBannedText(Trim(SelectSeq(SubSeq(h, i + 1, j - 1), IsNotTag)))

\* C25: the banned-heading check fires exactly for the texts in which some
\* heading element's text is a banned word as a whole
C25_HeadingCheckExact ==
  pc = "headings" => (lastReason = REASON_HEADING <=> someHeadingIsBanned(tin))

\* C27: with the fail-loud generateSiteHTML, the handler answers quality_gate
\* "passed" only when the delivered document comes from a candidate that
\* passed all four gate tests
C27_PassedOnlyForPassingCandidate ==
  (variant = "strict" /\ pc = "responded" /\ response.quality_gate = "passed") =>
     /\ loopExit = "break"
     /\ passesQualityGate(cand)

\* steps generateSiteHTML and its handler can still take at most
stepsLeft ==
  CASE pc = "request" -> 2 * (maxRetries + 1) + 6
    [] pc = "loop" -> 2 * (maxRetries + 1 - attempts) + 5
    [] pc = "await" -> 2 * (maxRetries + 1 - attempts) + 6
    [] pc = "select" -> 4
    [] pc = "inject" -> 3
    [] pc = "recheck" -> 2
    [] pc \in { "done", "thrown" } -> 1
    [] OTHER -> 0

\* C28: every step brings the call nearer to its end (the number of steps left
\* is a natural number that every step lowers), the attempt counter goes up by
\* one with each model call, and a request makes at most MAX_RETRIES + 1 calls
C28_CallTerminates ==
  [][ /\ stepsLeft' < stepsLeft
      /\ stepsLeft' >= 0
      /\ attempts' \in { attempts, attempts + 1 }
      /\ calls' # calls => (calls' = calls + 1 /\ attempts' = attempts + 1)
      /\ calls' <= maxRetries + 1 ]_vars

C28_Witness ==
  /\ pc = "responded" /\ stepsLeft = 0
  /\ maxRetries = 2 /\ calls = maxRetries + 1 /\ attempts = calls

\* C29: index.html is written only in the step that follows the return of
\* generateSiteHTML and answers 200; a request answered with 400 or 502 has
\* written nothing, and one answered with 400 has made no model call
C29_SiteWrittenOnlyAfterReturn ==
  [][ /\ (siteWritten' /\ ~siteWritten) =>
           (pc = "done" /\ err = "" /\ response'.status = 200)
      /\ response'.status \in { 400, 502 } => ~siteWritten'
      /\ response'.status = 400 => (calls' = 0 /\ missingRequiredFields(payload))
      /\ response'.status = 502 => err' # "" ]_vars

C29_Witness ==
  /\ pc = "responded" /\ response.status = 502 /\ ~siteWritten
  /\ err = "AI generation failed after retries" /\ calls = 2

RECURSIVE entriesOf(_)
entriesOf(items) ==
  IF items = <<>> THEN <<>> ELSE Head(items) \o entriesOf(Tail(items))

\* the content entries of the envelope in the order output, response, data
entriesInOrder(env) ==
  entriesOf(env.output.items) \o entriesOf(env.response.items)
    \o entriesOf(env.data.items)

IsTextEntry(e) == e.type = "output_text" /\ e.text # <<>>

\* a non-blank output_text, or else the text of the first output_text entry
\* with a text, or else nothing
expectedText(env) ==
  IF Trim(env.output_text) # <<>> THEN env.output_text
  ELSE LET found == SelectSeq(entriesInOrder(env), IsTextEntry)
       IN IF found = <<>> THEN <<>> ELSE Head(found).text

\* C26: the handlers that look into the envelope take a non-blank output_text
\* as it is, otherwise the first output_text entry with a text in the order
\* output, response, data; with no such entry the extracted text is empty and
\* the fallback page is the answer
C26_ExtractionOrder ==
  (handler \in { "scan", "first" } /\ apiResponse.status = 200) =>
     /\ apiText = expectedText(ai)
     /\ apiText = <<>> => apiResponse.html = fallbackHTML(payload)

\* C30: a valid request whose model call returns is answered with 200 and a
\* html that is not empty and starts with a doctype or the html tag; a text
\* that does not look like a page is not handed on as it is but gives a page
\* that starts with the doctype
C30_ApiAnswerIsADocument ==
  pc = "api_responded" =>
     /\ apiResponse.status = 200 <=> (satisfiesBriefShape(payload) /\ err = "")
     /\ apiResponse.status = 200 =>
          /\ apiResponse.html # <<>>
          /\ Head(apiResponse.html) \in { "D", "DU", "Ht" }
          /\ ~looksLikeHTML(sanitizeHTMLFromModel(apiText)) =>
               /\ Head(apiResponse.html) = "D"
               /\ apiResponse.html # apiText

C30_Witness ==
  /\ pc = "api_responded" /\ apiResponse.status = 200 /\ handler = "first"
  /\ ai.output_text = <<"w", "nl", "FN", "nl", "w", "nl", "FN">>
  /\ apiResponse.html = fallbackHTML(payload)

=============================================================================
